---- MODULE Spec2Model ----
(***************************************************************************)
(* Model of the RAG transaction chatbot: the Chroma document store and its *)
(* rebuild (src/src/vector_store.py, src/reset_vector_store.py), the       *)
(* chatbot with its LangChain window memory (src/src/rag_chain.py) and the *)
(* process-wide instance of the API (src/src/api/routes.py).               *)
(*                                                                         *)
(* The "setup" process is one run of setup_vector_store, started by        *)
(* RAGChatbot(), by reset_vector_store.py or by a script calling           *)
(* setup_vector_store(force_recreate).  The "chat" process is one call of  *)
(* RAGChatbot.chat on the constructed instance, made directly or by the    *)
(* /chat route of the API for a waiting request.  A script may also call   *)
(* retrieve_transactions.  The scripts are separate operating-system       *)
(* processes working on the same persist directory, so their steps         *)
(* interleave with the steps of a chat.                                    *)
(*                                                                         *)
(* Spec     the store, its rebuilds, retrievals and direct chats           *)
(* SpecFair Spec with the fairness of the program's own steps              *)
(* SpecMem  the chats of one constructed chatbot, enough to fill the window*)
(* SpecApi  the API process: initialisation, /chat requests, the event loop*)
(* SpecCfg  chatbots constructed under several top_k configurations        *)
(***************************************************************************)
EXTENDS Integers, Sequences, FiniteSets, TLC

(***************************************************************************)
(* Bounds of the model.                                                    *)
(***************************************************************************)
MaxId == 2          \* transaction ids are 1..MaxId
MaxSetups == 2      \* runs of setup_vector_store in one behaviour of Spec
MaxCalls == 1       \* chat calls in one behaviour of Spec
MaxMemCalls == 12   \* chat calls in one behaviour of SpecMem
MaxRequests == 3    \* /chat requests in one behaviour of SpecApi

(***************************************************************************)
(* Program constants.                                                      *)
(***************************************************************************)
W == 10              \* ConversationBufferWindowMemory(k=10)
\* the top_k values retrieve_transactions is called with (its default is 3)
RetrieveTopKs == {1, 3}

SEARCH_K_LeastTopK == CHOOSE k \in RetrieveTopKs : \A j \in RetrieveTopKs : k <= j
SEARCH_K == 14       \* similarity_search(question, k=14)
KNOWN_RECORD_COUNT == 14   \* "we have 14 total", the count the reset expects
DEFAULT_TOP_K_ARG == 3     \* RAGChatbot.__init__(..., top_k: int = 3)
DEFAULT_TOP_K_RESULTS == 50   \* os.getenv("TOP_K_RESULTS", 50)
FETCH_K == 50              \* search_kwargs={"k": top_k, "fetch_k": 50}

\* the values of TOP_K_RESULTS (0: not set) and of the top_k argument
EnvTopKs == {0, 1, 60}
ArgTopKs == {1, 3}
HISTORY_MSGS == 6    \* chat_history[-6:]

Ids == 1..MaxId
\* the amount of the record with a given id (55000 and 700 for ids 1 and 2)
AmountOf(id) == IF id = 1 THEN 55000 ELSE 700 * (id - 1)
Questions == {"q1", "q2"}
Answers == {"a1"}
APOLOGY == "I'm sorry, I encountered an error processing your question. Please try again."

NoResult == [answer |-> "", source_documents |-> <<>>, sources |-> <<>>]
NoCalls == [search |-> 0, generate |-> 0]

VARIABLES
    records,          \* what load_transactions last read from transactions.json:
                      \* transaction id -> amount
    persist_exists,   \* the persist directory ./chroma_db exists
    collection,       \* the Chroma collection: document id -> Document
    setup_pc,         \* position of the setup process
    setup_caller,     \* "chatbot", "reset" or "script"
    force_recreate,   \* argument of the running setup_vector_store
    documents,        \* local of ingest_transactions: the documents to add
    setups,           \* number of setup_vector_store runs started
    chatbot_instance, \* routes.chatbot_instance is not None
    messages,         \* memory.chat_memory.messages
    chat_pc,          \* position of the chat process
    question,         \* argument of the running chat
    use_memory,       \* argument of the running chat
    temp_memory,      \* local of chat: the copied message list
    all_docs,         \* local of query: the retrieved documents
    prompt,           \* what the running query handed to the LLM
    answer,           \* local of query: the LLM's answer
    result,           \* the dictionary the running query returns
    calls,            \* number of chat calls started
    coll_at_call,     \* history: collection when setup_vector_store was called
    coll_before,      \* history: collection when ingest_transactions was entered
    chat_history,     \* local of query: what load_memory_variables returned
    raised,           \* history: what raised inside the running query
    mem_at_call,      \* history: messages when the running chat was called
    rebuild_seen,     \* history: the rebuild that ran while the query searched,
                      \* kept until the query goes on to the LLM
    inits,            \* history: completed RAGChatbot() constructions since
                      \* the loaded records last changed (capped at 2)
    first_collection, \* history: collection after the first of them
    coll_at_search,   \* history: the collection the running query searched
    retrieved,        \* the running retrieve_transactions call: its top_k,
                      \* the collection it searched and its results
    last_question,    \* the value the running get_last_question call
                      \* returns, <<>> when no call is running
    provider_calls,   \* history: how often the running query has searched
                      \* the store and how often it has invoked the LLM
    turns_stored,     \* history: turns saved by use_memory=True queries since
                      \* the memory was last empty by construction or clear
    waiting,          \* /chat requests the server has received and whose
                      \* handler has not started
    suspended,        \* the locals of the /chat handlers that have started
                      \* and wait at an await for the event loop
    http_error,       \* status of the error response being sent, 0 for none
    env_top_k,        \* the environment's TOP_K_RESULTS, 0 when it is not set
    arg_top_k,        \* top_k argument of the running RAGChatbot(), 0 for none
    chatbot_config    \* top_k argument, self.top_k and self.retriever of the
                      \* constructed chatbot

storeVars == <<records, persist_exists, collection, setup_pc, setup_caller,
               force_recreate, documents, setups,
               coll_at_call, coll_before, inits, first_collection>>
chatVars == <<messages, chat_pc, question, use_memory, temp_memory, all_docs,
              prompt, answer, result, calls, chat_history, raised,
              mem_at_call, rebuild_seen, coll_at_search, turns_stored,
              provider_calls>>
apiVars == <<waiting, suspended, http_error>>
cfgVars == <<env_top_k, arg_top_k, chatbot_config>>
outerVars == <<retrieved, last_question, apiVars, cfgVars>>
vars == <<storeVars, chatbot_instance, chatVars, outerVars>>

(***************************************************************************)
(* Helpers.                                                                *)
(***************************************************************************)
Range(s) == {s[i] : i \in 1..Len(s)}

Min(a, b) == IF a < b THEN a ELSE b

\* Python's s[-n:] for n > 0
LastN(s, n) == IF Len(s) <= n THEN s ELSE SubSeq(s, Len(s) - n + 1, Len(s))

EmptyCollection == [k \in {} |-> 0]

\* every record source with unique ids and at least one record
RecordSources == {[i \in S |-> AmountOf(i)] : S \in (SUBSET Ids) \ {{}}}

(***************************************************************************)
(* data_loader.py and the documents of ingest_transactions.                *)
(***************************************************************************)
preprocess_transaction(id, amount) == <<"Transaction ID", id, "Amount", amount>>

get_transaction_metadata(id, amount) == [id |-> id, amount |-> amount]

DocIdFresh(id) == <<"uuid", setups, id>>

DocId(id) == <<"txn", id>>

\* Document(page_content=text, metadata={**metadata, "doc_id": f"txn_{id}"})
Document(id, amount) ==
    LET metadata == get_transaction_metadata(id, amount)
    IN [page_content |-> preprocess_transaction(id, amount),
        metadata |-> [id |-> metadata.id, amount |-> metadata.amount,
                      doc_id |-> DocId(metadata.id)]]

\* the documents and the ids of ingest_transactions, as a map id -> Document
DocumentsOf(recs) ==
    LET ids == {DocId(i) : i \in DOMAIN recs}
    IN [k \in ids |-> LET i == CHOOSE j \in DOMAIN recs : DocId(j) = k
                      IN Document(i, recs[i])]

(***************************************************************************)
(* The Chroma collection.                                                  *)
(***************************************************************************)
Count(coll) == Cardinality(DOMAIN coll)

DeleteCollectionKeep(coll) == coll

DeleteCollection(coll) == EmptyCollection

\* collection.upsert: a document replaces the one stored under the same id
Upsert(coll, docs) ==
    [k \in DOMAIN coll \cup DOMAIN docs |->
        IF k \in DOMAIN docs THEN docs[k] ELSE coll[k]]

NeedsIngestAlways(force, count) == TRUE

NeedsIngest(force, count) == force \/ count = 0

SimilaritySearchUnbounded(coll, k) ==
    LET n == Count(coll)
    IN {s \in [1..n -> {coll[d] : d \in DOMAIN coll}] :
           \A i, j \in 1..n : i # j => s[i] # s[j]}

\* the results a similarity search for k documents can rank: every ordering
\* of every choice of min(k, count) documents of the collection
SimilaritySearch(coll, k) ==
    LET n == Min(k, Count(coll))
    IN {s \in [1..n -> {coll[d] : d \in DOMAIN coll}] :
           \A i, j \in 1..n : i # j => s[i] # s[j]}

(***************************************************************************)
(* The initial state: nothing on disk but transactions.json, no chatbot.   *)
(***************************************************************************)
InitWith(env) ==
    /\ env_top_k = env
    /\ arg_top_k = 0
    /\ chatbot_config = <<>>
    /\ records = EmptyCollection
    /\ persist_exists = FALSE
    /\ collection = EmptyCollection
    /\ setup_pc = "idle"
    /\ setup_caller = "none"
    /\ force_recreate = FALSE
    /\ documents = EmptyCollection
    /\ setups = 0
    /\ chatbot_instance = FALSE
    /\ messages = <<>>
    /\ chat_pc = "idle"
    /\ question = ""
    /\ use_memory = TRUE
    /\ temp_memory = <<>>
    /\ all_docs = <<>>
    /\ prompt = <<>>
    /\ answer = ""
    /\ result = NoResult
    /\ calls = 0
    /\ coll_at_call = EmptyCollection
    /\ coll_before = EmptyCollection
    /\ chat_history = <<>>
    /\ raised = "none"
    /\ mem_at_call = <<>>
    /\ rebuild_seen = <<>>
    /\ coll_at_search = <<>>
    /\ retrieved = <<>>
    /\ last_question = <<>>
    /\ turns_stored = 0
    /\ provider_calls = NoCalls
    /\ waiting = <<>>
    /\ suspended = <<>>
    /\ http_error = 0
    /\ inits = 0
    /\ first_collection = EmptyCollection

\* the environment of the deployment as shipped: TOP_K_RESULTS not set
Init == InitWith(0)

(***************************************************************************)
(* The configuration of the chatbot: RAGChatbot.__init__ and get_retriever.*)
(***************************************************************************)
\* self.top_k = int(os.getenv("TOP_K_RESULTS", 50)); the argument is not read
ConfiguredTopK(arg, env) == IF env # 0 THEN env ELSE DEFAULT_TOP_K_RESULTS

\* as_retriever(search_type="mmr", search_kwargs={"k": top_k, "fetch_k": 50})
get_retriever(top_k) == [search_type |-> "mmr", k |-> top_k, fetch_k |-> FETCH_K]

(***************************************************************************)
(* The setup process: setup_vector_store and its three callers.            *)
(***************************************************************************)
StartSetup(caller, force) ==
    /\ retrieved = <<>>
    /\ last_question = <<>>
    /\ setup_pc' = "initialize_store"
    /\ setup_caller' = caller
    /\ force_recreate' = force
    /\ setups' = setups + 1
    /\ documents' = EmptyCollection

\* RAGChatbot.__init__ with no manager: setup_vector_store(force_recreate=True).
\* The constructor runs in the API's own process, between its chats.
ConstructChatbot(top_k) ==
    /\ setup_pc = "idle"
    /\ chat_pc = "idle"
    /\ StartSetup("chatbot", TRUE)
    /\ arg_top_k' = top_k
    /\ coll_at_call' = collection
    /\ UNCHANGED <<records, persist_exists, collection, coll_before, inits,
                   first_collection, chatbot_instance, chatVars, retrieved,
                   last_question, apiVars, env_top_k, chatbot_config>>

\* initialize_chatbot: chatbot_instance = RAGChatbot()
InitializeChatbot == ConstructChatbot(DEFAULT_TOP_K_ARG)

\* reset_vector_store: rmtree of the persist directory, then
\* setup_vector_store(force_recreate=True)
ResetVectorStore ==
    /\ setup_pc = "idle"
    /\ StartSetup("reset", TRUE)
    /\ persist_exists' = FALSE
    /\ collection' = EmptyCollection
    /\ coll_at_call' = EmptyCollection
    /\ UNCHANGED <<records, coll_before, inits, first_collection, chatbot_instance, chatVars, outerVars>>

\* a script calling setup_vector_store(force_recreate) directly
SetupVectorStore(force) ==
    /\ setup_pc = "idle"
    /\ StartSetup("script", force)
    /\ coll_at_call' = collection
    /\ UNCHANGED <<records, persist_exists, collection, coll_before, inits,
                   first_collection, chatbot_instance, chatVars, outerVars>>

\* VectorStoreManager.initialize_store: both branches open the collection,
\* creating the persist directory when it is missing
InitializeStore ==
    /\ setup_pc = "initialize_store"
    /\ persist_exists' = TRUE
    /\ setup_pc' = "check"
    /\ UNCHANGED <<records, collection, setup_caller, force_recreate,
                   documents, setups, coll_at_call, coll_before,
                   inits, first_collection, chatbot_instance,
                   chatVars, outerVars>>

\* the rest of RAGChatbot.__init__ once the store is set up: a new instance
\* with an empty memory
Constructed ==
    /\ chatbot_instance' = TRUE
    /\ messages' = <<>>
    /\ turns_stored' = 0
    /\ chatbot_config' =
          <<[arg |-> arg_top_k,
             top_k |-> ConfiguredTopK(arg_top_k, env_top_k),
             retriever |->
                 get_retriever(ConfiguredTopK(arg_top_k, env_top_k))]>>
    /\ inits' = Min(inits + 1, 2)
    /\ first_collection' = IF inits = 0 THEN collection ELSE first_collection

NotConstructed ==
    /\ UNCHANGED <<chatbot_instance, messages, turns_stored, chatbot_config,
                   inits, first_collection>>

\* setup_vector_store: ingest when forced or when the collection is empty
CheckIngest ==
    /\ setup_pc = "check"
    /\ IF NeedsIngest(force_recreate, Count(collection))
       THEN setup_pc' = "ingest"
       ELSE setup_pc' = "skipped"
    /\ UNCHANGED <<records, persist_exists, collection, setup_caller,
                   force_recreate, documents, setups, coll_at_call, coll_before,
                   inits, first_collection, chatbot_instance,
                   chatVars, outerVars>>

\* ingest_transactions: load the records, whatever transactions.json holds
\* by now, and build the documents
LoadDocuments ==
    /\ setup_pc = "ingest"
    /\ \E r \in RecordSources :
          /\ records' = r
          /\ documents' = DocumentsOf(r)
          /\ inits' = IF r = records THEN inits ELSE 0
          /\ first_collection' = IF r = records THEN first_collection
                                 ELSE EmptyCollection
    /\ coll_before' = collection
    /\ setup_pc' = "delete"
    /\ UNCHANGED <<persist_exists, collection, setup_caller, force_recreate,
                   setups, coll_at_call, chatbot_instance, chatVars, outerVars>>

\* ingest_transactions: delete_collection and reopen the collection
DeleteExisting ==
    /\ setup_pc = "delete"
    /\ collection' = DeleteCollection(collection)
    /\ setup_pc' = "add"
    /\ UNCHANGED <<records, persist_exists, setup_caller, force_recreate,
                   documents, setups, coll_at_call, coll_before,
                   inits, first_collection, chatbot_instance,
                   chatVars, outerVars>>

\* ingest_transactions: add_documents embeds every document and upserts them
AddDocuments ==
    /\ setup_pc = "add"
    /\ collection' = Upsert(collection, documents)
    /\ setup_pc' = "persist"
    /\ UNCHANGED <<records, persist_exists, setup_caller, force_recreate,
                   documents, setups, coll_at_call, coll_before,
                   inits, first_collection, chatbot_instance,
                   chatVars, outerVars>>

\* ingest_transactions: the Embedding Provider raises inside add_documents;
\* the exception leaves ingest_transactions, setup_vector_store and the caller
AddDocumentsFails ==
    /\ setup_pc = "add"
    /\ setup_pc' = "raise"
    /\ UNCHANGED <<records, persist_exists, collection, setup_caller,
                   force_recreate, documents, setups, coll_at_call, coll_before,
                   inits, first_collection, chatbot_instance,
                   chatVars, outerVars>>

\* ingest_transactions: persist; the collection on disk is the one in memory
Persist ==
    /\ setup_pc = "persist"
    /\ setup_pc' = "return"
    /\ UNCHANGED <<records, persist_exists, collection, setup_caller,
                   force_recreate, documents, setups, coll_at_call, coll_before,
                   inits, first_collection, chatbot_instance,
                   chatVars, outerVars>>

\* setup_vector_store returns to its caller, after the ingest or without one;
\* RAGChatbot.__init__ then finishes the construction
SetupReturn ==
    /\ setup_pc \in {"return", "skipped"}
    /\ setup_pc' = "idle"
    /\ documents' = EmptyCollection
    /\ coll_at_call' = EmptyCollection
    /\ coll_before' = EmptyCollection
    /\ setup_caller' = "none"
    /\ force_recreate' = FALSE
    /\ arg_top_k' = 0
    /\ IF setup_caller = "chatbot"
       THEN Constructed
       ELSE NotConstructed
    /\ UNCHANGED <<records, persist_exists, collection, setups,
                   chat_pc, question, use_memory, temp_memory, all_docs,
                   prompt, answer, result, calls, chat_history, raised,
                   mem_at_call, rebuild_seen, coll_at_search, provider_calls,
                   retrieved, last_question, apiVars, env_top_k>>

\* the exception of add_documents leaves setup_vector_store and its caller:
\* no chatbot is constructed
SetupRaise ==
    /\ setup_pc = "raise"
    /\ setup_pc' = "idle"
    /\ documents' = EmptyCollection
    /\ coll_at_call' = EmptyCollection
    /\ coll_before' = EmptyCollection
    /\ setup_caller' = "none"
    /\ force_recreate' = FALSE
    /\ arg_top_k' = 0
    /\ UNCHANGED <<records, persist_exists, collection, setups, inits,
                   first_collection, chatbot_instance, chatVars, retrieved,
                   last_question, apiVars, env_top_k, chatbot_config>>

(***************************************************************************)
(* retrieve_transactions, called by a script on its own manager.  The call *)
(* reads the collection in one step; no chat and no new setup is started   *)
(* until it has returned.                                                  *)
(***************************************************************************)
\* retrieve_transactions(query, top_k): open the store when it is not open,
\* then similarity_search(query, k=top_k) returns
RetrieveTransactions(top_k) ==
    /\ retrieved = <<>>
    /\ chat_pc = "idle"
    /\ persist_exists' = TRUE
    /\ \E results \in SimilaritySearch(collection, top_k) :
          retrieved' = <<[top_k |-> top_k, coll |-> collection,
                          results |-> results]>>
    /\ UNCHANGED <<records, collection, setup_pc, setup_caller, force_recreate,
                   documents, setups, coll_at_call, coll_before, inits,
                   first_collection, chatbot_instance, chatVars,
                   last_question, apiVars, cfgVars>>

\* the results go to the caller
RetrieveReturn ==
    /\ retrieved # <<>>
    /\ retrieved' = <<>>
    /\ UNCHANGED <<storeVars, chatbot_instance, chatVars, last_question,
                   apiVars, cfgVars>>

(***************************************************************************)
(* The conversation memory: ConversationBufferWindowMemory(k=10) over an   *)
(* in-memory message list.  A message carries its type and content; the    *)
(* field memoryless is history, it records that the message was saved by a *)
(* query running under chat(use_memory=False).                             *)
(***************************************************************************)
HumanMessage(content, nomem) ==
    [type |-> "human", content |-> content, memoryless |-> nomem]

AIMessage(content, nomem) ==
    [type |-> "ai", content |-> content, memoryless |-> nomem]

save_contextAnswerFirst(msgs, q, a, nomem) ==
    msgs \o <<AIMessage(a, nomem), HumanMessage(q, nomem)>>

\* save_context: the question and the answer go to the end of the list;
\* nothing is removed from it
save_context(msgs, q, a, nomem) ==
    msgs \o <<HumanMessage(q, nomem), AIMessage(a, nomem)>>

load_memory_variablesAll(msgs) == msgs

\* load_memory_variables: the last k turns, messages[-k * 2:]
load_memory_variables(msgs) == LastN(msgs, 2 * W)

ClearKeepsLastTurn(msgs) == LastN(msgs, 2)

\* memory.clear(): the message list is emptied
Clear(msgs) == <<>>

RestoreExtend(saved, current) == saved \o current

RestoreKeep(saved, current) == current

\* chat: self.memory.chat_memory.messages = temp_memory
Restore(saved, current) == saved

HistoryTextAll(history) ==
    [i \in 1..Len(history) |->
        <<IF history[i].type = "human" THEN "User" ELSE "Assistant",
          history[i].content>>]

\* query: the history section of the prompt, one line per message of
\* chat_history[-6:]
HistoryText(history) ==
    LET recent == LastN(history, HISTORY_MSGS)
    IN [i \in 1..Len(recent) |->
           <<IF recent[i].type = "human" THEN "User" ELSE "Assistant",
             recent[i].content>>]

\* query: the contents of the retrieved documents, joined in their order
Context(docs) == [i \in 1..Len(docs) |-> docs[i].page_content]

SourcesReversed(docs) ==
    [i \in 1..Len(docs) |-> docs[Len(docs) + 1 - i].metadata]

\* query: [doc.metadata for doc in all_docs]
Sources(docs) == [i \in 1..Len(docs) |-> docs[i].metadata]

FallbackResultWithSources == 
    [answer |-> APOLOGY, source_documents |-> all_docs, sources |-> Sources(all_docs)]

\* query: the dictionary of the except branch
FallbackResult ==
    [answer |-> APOLOGY, source_documents |-> <<>>, sources |-> <<>>]

\* ingest_transactions is between building its documents and returning
RebuildRunning == setup_pc \in {"delete", "add", "persist"}

\* the collection before and the documents of the rebuild that is running
RebuildAtSearch ==
    IF RebuildRunning THEN <<[before |-> coll_before, after |-> documents]>>
    ELSE <<>>

(***************************************************************************)
(* The chat process: RAGChatbot.chat and RAGChatbot.query.                 *)
(***************************************************************************)
AfterFailureRetry(pc) == pc

\* query: an exception inside the try block goes to the except branch
AfterFailure(pc) == "except"

\* the locals of the running call of chat, and those of no call
HandlerContext ==
    [chat_pc |-> chat_pc, question |-> question, use_memory |-> use_memory,
     temp_memory |-> temp_memory, all_docs |-> all_docs, prompt |-> prompt,
     answer |-> answer, result |-> result, chat_history |-> chat_history,
     raised |-> raised, mem_at_call |-> mem_at_call,
     rebuild_seen |-> rebuild_seen, coll_at_search |-> coll_at_search,
     provider_calls |-> provider_calls]

IdleContext ==
    [chat_pc |-> "idle", question |-> "", use_memory |-> TRUE,
     temp_memory |-> <<>>, all_docs |-> <<>>, prompt |-> <<>>,
     answer |-> "", result |-> NoResult, chat_history |-> <<>>,
     raised |-> "none", mem_at_call |-> <<>>,
     rebuild_seen |-> <<>>, coll_at_search |-> <<>>,
     provider_calls |-> NoCalls]

\* chat(question, use_memory): with use_memory=False the messages are copied
\* and the memory is cleared before the query
EnterChat(q, um) ==
    /\ question' = q
    /\ use_memory' = um
    /\ mem_at_call' = messages
    /\ temp_memory' = IF um THEN <<>> ELSE messages
    /\ messages' = IF um THEN messages ELSE Clear(messages)
    /\ calls' = calls + 1
    /\ chat_pc' = "search"

\* a script or test calls chat on the constructed chatbot
ChatCall(q, um) ==
    /\ chatbot_instance
    /\ chat_pc = "idle"
    /\ ~(setup_pc # "idle" /\ setup_caller = "chatbot")
    /\ retrieved = <<>>
    /\ last_question = <<>>
    /\ EnterChat(q, um)
    /\ UNCHANGED <<storeVars, outerVars, chatbot_instance, all_docs, prompt,
                   answer, result, chat_history, raised, rebuild_seen,
                   coll_at_search, turns_stored, provider_calls>>

\* query: similarity_search(question, k=14) returns
Search ==
    /\ chat_pc = "search"
    /\ all_docs' \in SimilaritySearch(collection, SEARCH_K)
    /\ rebuild_seen' = RebuildAtSearch
    /\ coll_at_search' = <<collection>>
    /\ provider_calls' = [provider_calls EXCEPT !.search = @ + 1]
    /\ chat_pc' = "generate"
    /\ UNCHANGED <<storeVars, outerVars, chatbot_instance, messages, question,
                   use_memory, temp_memory, prompt, answer, result, calls,
                   chat_history, raised, mem_at_call, turns_stored>>

\* query: the Embedding Provider or the store raises inside similarity_search
SearchFails ==
    /\ chat_pc = "search"
    /\ raised' = "retrieval"
    /\ provider_calls' = [provider_calls EXCEPT !.search = @ + 1]
    /\ chat_pc' = AfterFailure(chat_pc)
    /\ UNCHANGED <<storeVars, outerVars, chatbot_instance, messages, question,
                   use_memory, temp_memory, all_docs, prompt, answer, result,
                   calls, chat_history, mem_at_call, rebuild_seen,
                   coll_at_search, turns_stored>>

\* query: load the history, build the prompt, and the LLM answers
Generate ==
    /\ chat_pc = "generate"
    /\ chat_history' = load_memory_variables(messages)
    /\ prompt' = [history |-> HistoryText(chat_history'),
                  context |-> Context(all_docs),
                  question |-> question]
    /\ answer' \in Answers
    /\ rebuild_seen' = <<>>
    /\ provider_calls' = [provider_calls EXCEPT !.generate = @ + 1]
    /\ chat_pc' = "save"
    /\ UNCHANGED <<storeVars, outerVars, chatbot_instance, messages, question,
                   use_memory, temp_memory, all_docs, result, calls, raised,
                   mem_at_call, coll_at_search, turns_stored>>

\* query: the Generation Provider raises inside chain.invoke
GenerateFails ==
    /\ chat_pc = "generate"
    /\ chat_history' = load_memory_variables(messages)
    /\ prompt' = [history |-> HistoryText(chat_history'),
                  context |-> Context(all_docs),
                  question |-> question]
    /\ raised' = "generation"
    /\ rebuild_seen' = <<>>
    /\ provider_calls' = [provider_calls EXCEPT !.generate = @ + 1]
    /\ chat_pc' = AfterFailure(chat_pc)
    /\ UNCHANGED <<storeVars, outerVars, chatbot_instance, messages, question,
                   use_memory, temp_memory, all_docs, answer, result, calls,
                   mem_at_call, coll_at_search, turns_stored>>

\* query: self.memory.save_context({"question": ...}, {"answer": ...})
SaveContext ==
    /\ chat_pc = "save"
    /\ messages' = save_context(messages, question, answer, ~use_memory)
    /\ turns_stored' = IF use_memory THEN turns_stored + 1 ELSE turns_stored
    /\ chat_pc' = "query_return"
    /\ UNCHANGED <<storeVars, outerVars, chatbot_instance, question, use_memory,
                   temp_memory, all_docs, prompt, answer, result, calls,
                   chat_history, raised, mem_at_call, rebuild_seen,
                   coll_at_search, provider_calls>>

\* query: the return of the try branch
QueryReturn ==
    /\ chat_pc = "query_return"
    /\ result' = [answer |-> answer, source_documents |-> all_docs,
                  sources |-> Sources(all_docs)]
    /\ chat_pc' = IF use_memory THEN "chat_return" ELSE "restore"
    /\ UNCHANGED <<storeVars, outerVars, chatbot_instance, messages, question,
                   use_memory, temp_memory, all_docs, prompt, answer, calls,
                   chat_history, raised, mem_at_call, rebuild_seen,
                   coll_at_search, turns_stored, provider_calls>>

MemoryAfterExceptionSavesApology(msgs, q, nomem) ==
    save_context(msgs, q, APOLOGY, nomem)

\* query: the except branch prints the error and builds the fallback result;
\* it makes no call on self.memory
MemoryAfterException(msgs, q, nomem) == msgs

\* query: the except branch catches the exception and returns the apology
HandleException ==
    /\ chat_pc = "except"
    /\ result' = FallbackResult
    /\ messages' = MemoryAfterException(messages, question, ~use_memory)
    /\ chat_pc' = IF use_memory THEN "chat_return" ELSE "restore"
    /\ UNCHANGED <<storeVars, outerVars, chatbot_instance, question,
                   use_memory, temp_memory, all_docs, prompt, answer, calls,
                   chat_history, raised, mem_at_call, rebuild_seen,
                   coll_at_search, turns_stored, provider_calls>>

\* chat: with use_memory=False the copied messages are put back
RestoreMemory ==
    /\ chat_pc = "restore"
    /\ messages' = Restore(temp_memory, messages)
    /\ chat_pc' = "chat_return"
    /\ UNCHANGED <<storeVars, outerVars, chatbot_instance, question, use_memory,
                   temp_memory, all_docs, prompt, answer, result, calls,
                   chat_history, raised, mem_at_call, rebuild_seen,
                   coll_at_search, turns_stored, provider_calls>>

\* the locals the thread goes on with when the running call of chat returns:
\* those of the handler suspended last, if there is one
ResumedContext ==
    IF suspended = <<>> THEN IdleContext ELSE suspended[Len(suspended)]

\* chat: the result goes to the caller and the locals of the call are gone
ChatReturn ==
    /\ chat_pc = "chat_return"
    /\ temp_memory' = ResumedContext.temp_memory
    /\ all_docs' = ResumedContext.all_docs
    /\ prompt' = ResumedContext.prompt
    /\ answer' = ResumedContext.answer
    /\ chat_history' = ResumedContext.chat_history
    /\ mem_at_call' = ResumedContext.mem_at_call
    /\ rebuild_seen' = ResumedContext.rebuild_seen
    /\ coll_at_search' = ResumedContext.coll_at_search
    /\ provider_calls' = ResumedContext.provider_calls
    /\ question' = ResumedContext.question
    /\ use_memory' = ResumedContext.use_memory
    /\ result' = ResumedContext.result
    /\ raised' = ResumedContext.raised
    /\ chat_pc' = ResumedContext.chat_pc
    /\ suspended' = IF suspended = <<>> THEN <<>>
                    ELSE SubSeq(suspended, 1, Len(suspended) - 1)
    /\ UNCHANGED <<storeVars, retrieved, last_question, waiting, http_error, cfgVars,
                   chatbot_instance, messages, calls, turns_stored>>

\* clear_memory between two chats
ClearMemory ==
    /\ chatbot_instance
    /\ chat_pc = "idle"
    /\ last_question = <<>>
    /\ messages # <<>>
    /\ messages' = <<>>
    /\ turns_stored' = 0
    /\ UNCHANGED <<storeVars, outerVars, chatbot_instance, chat_pc, question,
                   use_memory, temp_memory, all_docs, prompt, answer, result,
                   calls, chat_history, raised, mem_at_call, rebuild_seen,
                   coll_at_search, provider_calls>>

\* the None of Python
None == "None"

get_last_questionOldest(msgs) ==
    LET humans == {i \in 1..Len(msgs) : msgs[i].type = "human"}
    IN IF humans = {} THEN None
       ELSE msgs[CHOOSE i \in humans : \A j \in humans : i <= j].content

\* get_last_question: the content of the first human message of
\* reversed(messages), None when the list has none
get_last_question(msgs) ==
    LET humans == {i \in 1..Len(msgs) : msgs[i].type = "human"}
    IN IF humans = {} THEN None
       ELSE msgs[CHOOSE i \in humans : \A j \in humans : j <= i].content

\* a script calls get_last_question between two chats; no chat, no
\* clear_memory and no new setup is started until the call has returned
GetLastQuestion ==
    /\ chatbot_instance
    /\ chat_pc = "idle"
    /\ ~(setup_pc # "idle" /\ setup_caller = "chatbot")
    /\ retrieved = <<>>
    /\ last_question = <<>>
    /\ last_question' = <<get_last_question(messages)>>
    /\ UNCHANGED <<storeVars, chatbot_instance, chatVars, retrieved, apiVars,
                   cfgVars>>

\* the value goes to the caller
GetLastQuestionReturn ==
    /\ last_question # <<>>
    /\ last_question' = <<>>
    /\ UNCHANGED <<storeVars, chatbot_instance, chatVars, retrieved, apiVars,
                   cfgVars>>

(***************************************************************************)
(* The /chat route of the API.  The server takes requests in at any time;  *)
(* its event loop runs one handler until the handler returns or awaits.    *)
(***************************************************************************)
Request(q, um) == [query |-> q, use_memory |-> um]

\* a client posts {"query": q, "use_memory": um} to /chat
RequestArrives(q, um) ==
    /\ waiting' = Append(waiting, Request(q, um))
    /\ UNCHANGED <<storeVars, chatbot_instance, chatVars, retrieved,
                   last_question, suspended, http_error, cfgVars>>

AtAwaitGenerate(pc) == pc = "generate"

\* the position of the running handler is an await: the body of the chat
\* route calls chatbot.chat without awaiting anything
AtAwait(pc) == FALSE

\* the event loop can start the handler of another request
LoopFree == http_error = 0 /\ (chat_pc = "idle" \/ AtAwait(chat_pc))

InstanceMissingNever(instance) == FALSE

\* get_chatbot: if chatbot_instance is None
InstanceMissing(instance) == ~instance

\* the chat route for the oldest waiting request: get_chatbot hands over the
\* instance and the handler calls chatbot.chat(request.query, use_memory)
ChatRoute ==
    /\ waiting # <<>>
    /\ LoopFree
    /\ ~(setup_pc # "idle" /\ setup_caller = "chatbot")
    /\ ~InstanceMissing(chatbot_instance)
    /\ last_question = <<>>
    /\ waiting' = Tail(waiting)
    /\ suspended' = IF chat_pc = "idle" THEN suspended
                    ELSE Append(suspended, HandlerContext)
    /\ EnterChat(Head(waiting).query, Head(waiting).use_memory)
    /\ all_docs' = <<>>
    /\ prompt' = <<>>
    /\ answer' = ""
    /\ result' = NoResult
    /\ chat_history' = <<>>
    /\ raised' = "none"
    /\ rebuild_seen' = <<>>
    /\ coll_at_search' = <<>>
    /\ provider_calls' = NoCalls
    /\ UNCHANGED <<storeVars, chatbot_instance, retrieved, last_question,
                   http_error, cfgVars, turns_stored>>

\* the chat route for the oldest waiting request when get_chatbot raises
\* HTTPException(status_code=503)
RejectRequest ==
    /\ waiting # <<>>
    /\ LoopFree
    /\ ~(setup_pc # "idle" /\ setup_caller = "chatbot")
    /\ InstanceMissing(chatbot_instance)
    /\ waiting' = Tail(waiting)
    /\ http_error' = 503
    /\ calls' = calls + 1
    /\ UNCHANGED <<storeVars, chatbot_instance, retrieved, last_question,
                   suspended, cfgVars, messages, chat_pc, question, use_memory, temp_memory,
                   all_docs, prompt, answer, result, chat_history, raised,
                   mem_at_call, rebuild_seen, coll_at_search, turns_stored,
                   provider_calls>>

\* the error response has gone to the client
SendError ==
    /\ http_error # 0
    /\ http_error' = 0
    /\ UNCHANGED <<storeVars, chatbot_instance, chatVars, retrieved,
                   last_question, waiting, suspended, cfgVars>>

(***************************************************************************)
(* Spec: the store, its rebuilds and the chats of the constructed chatbot. *)
(***************************************************************************)
ChatStep ==
    \/ Search
    \/ SearchFails
    \/ Generate
    \/ GenerateFails
    \/ SaveContext
    \/ QueryReturn
    \/ HandleException
    \/ RestoreMemory
    \/ ChatReturn
    \/ ClearMemory
    \/ GetLastQuestion
    \/ GetLastQuestionReturn

Next ==
    \/ setups < MaxSetups /\ InitializeChatbot
    \/ setups < MaxSetups /\ ResetVectorStore
    \/ \E force \in BOOLEAN : setups < MaxSetups /\ SetupVectorStore(force)
    \/ InitializeStore
    \/ CheckIngest
    \/ LoadDocuments
    \/ DeleteExisting
    \/ AddDocuments
    \/ AddDocumentsFails
    \/ Persist
    \/ SetupReturn
    \/ SetupRaise
    \/ \E top_k \in RetrieveTopKs : RetrieveTransactions(top_k)
    \/ RetrieveReturn
    \/ \E q \in Questions, um \in BOOLEAN : calls < MaxCalls /\ ChatCall(q, um)
    \/ ChatStep

Spec == Init /\ [][Next]_vars

(***************************************************************************)
(* SpecFair: Spec with the fairness the code gives.  Once the store or the *)
(* LLM has responded, by a result or by an exception, the interpreter goes *)
(* on through query and chat.  The response itself is the provider's: the  *)
(* code sets no timeout on the LLM or on the embeddings and puts no        *)
(* deadline around similarity_search or chain.invoke, so nothing in the    *)
(* program makes Search, SearchFails, Generate or GenerateFails happen.    *)
(***************************************************************************)
ProgramStep ==
    \/ SaveContext
    \/ QueryReturn
    \/ HandleException
    \/ RestoreMemory
    \/ ChatReturn

SpecFair == Spec /\ WF_vars(ProgramStep)

(***************************************************************************)
(* SpecMem: one constructed chatbot over a loaded store, and only its      *)
(* chats, enough of them to fill the memory window.                        *)
(***************************************************************************)
InitMem ==
    /\ env_top_k = 0
    /\ arg_top_k = 0
    /\ chatbot_config =
          <<[arg |-> DEFAULT_TOP_K_ARG,
             top_k |-> ConfiguredTopK(DEFAULT_TOP_K_ARG, 0),
             retriever |-> get_retriever(ConfiguredTopK(DEFAULT_TOP_K_ARG, 0))]>>
    /\ records = [i \in Ids |-> AmountOf(i)]
    /\ persist_exists = TRUE
    /\ collection = DocumentsOf(records)
    /\ setup_pc = "idle"
    /\ setup_caller = "none"
    /\ force_recreate = FALSE
    /\ documents = EmptyCollection
    /\ setups = 1
    /\ chatbot_instance = TRUE
    /\ messages = <<>>
    /\ chat_pc = "idle"
    /\ question = ""
    /\ use_memory = TRUE
    /\ temp_memory = <<>>
    /\ all_docs = <<>>
    /\ prompt = <<>>
    /\ answer = ""
    /\ result = NoResult
    /\ calls = 0
    /\ chat_history = <<>>
    /\ raised = "none"
    /\ mem_at_call = <<>>
    /\ rebuild_seen = <<>>
    /\ coll_at_search = <<>>
    /\ retrieved = <<>>
    /\ last_question = <<>>
    /\ turns_stored = 0
    /\ provider_calls = NoCalls
    /\ waiting = <<>>
    /\ suspended = <<>>
    /\ http_error = 0
    /\ coll_at_call = EmptyCollection
    /\ coll_before = EmptyCollection
    /\ inits = 1
    /\ first_collection = collection

NextMem ==
    \/ \E q \in Questions, um \in BOOLEAN : calls < MaxMemCalls /\ ChatCall(q, um)
    \/ ChatStep

SpecMem == InitMem /\ [][NextMem]_vars

(***************************************************************************)
(* SpecApi: the API process.  initialize_chatbot constructs the chatbot,   *)
(* clients post /chat requests at any time, and the event loop runs their  *)
(* handlers.                                                               *)
(***************************************************************************)
NextApi ==
    \/ setups < MaxSetups /\ InitializeChatbot
    \/ InitializeStore
    \/ CheckIngest
    \/ LoadDocuments
    \/ DeleteExisting
    \/ AddDocuments
    \/ AddDocumentsFails
    \/ Persist
    \/ SetupReturn
    \/ SetupRaise
    \/ \E q \in Questions, um \in BOOLEAN :
          calls + Len(waiting) < MaxRequests /\ RequestArrives(q, um)
    \/ ChatRoute
    \/ RejectRequest
    \/ SendError
    \/ Search
    \/ SearchFails
    \/ Generate
    \/ GenerateFails
    \/ SaveContext
    \/ QueryReturn
    \/ HandleException
    \/ RestoreMemory
    \/ ChatReturn

SpecApi == Init /\ [][NextApi]_vars

(***************************************************************************)
(* SpecCfg: chatbots constructed under every TOP_K_RESULTS of EnvTopKs and *)
(* with every top_k argument of ArgTopKs, and their chats.                 *)
(***************************************************************************)
InitCfg == \E env \in EnvTopKs : InitWith(env)

NextCfg ==
    \/ \E top_k \in ArgTopKs : setups < MaxSetups /\ ConstructChatbot(top_k)
    \/ InitializeStore
    \/ CheckIngest
    \/ LoadDocuments
    \/ DeleteExisting
    \/ AddDocuments
    \/ AddDocumentsFails
    \/ Persist
    \/ SetupReturn
    \/ SetupRaise
    \/ \E q \in Questions, um \in BOOLEAN : calls < MaxCalls /\ ChatCall(q, um)
    \/ ChatStep

SpecCfg == InitCfg /\ [][NextCfg]_vars

(***************************************************************************)
(* Properties.                                                             *)
(***************************************************************************)
Turn(q, a) ==
    <<[type |-> "human", content |-> q, memoryless |-> FALSE],
      [type |-> "ai", content |-> a, memoryless |-> FALSE]>>

\* the documents a record source stands for, written out field by field
ExpectedCollection(recs) ==
    [k \in {<<"txn", i>> : i \in DOMAIN recs} |->
        [page_content |-> <<"Transaction ID", k[2], "Amount", recs[k[2]]>>,
         metadata |-> [id |-> k[2], amount |-> recs[k[2]], doc_id |-> k]]]

DocsIn(coll) == {coll[k] : k \in DOMAIN coll}

\* C1: when chat(question, use_memory=False) returns, the message list of the
\* memory is exactly the list it was when chat was called, whether the query
\* was answered or failed.
C1_NoMemoryChatLeavesMemory ==
    (chat_pc = "chat_return" /\ ~use_memory) => messages = mem_at_call

C1_Witness ==
    /\ chat_pc = "chat_return"
    /\ ~use_memory
    /\ raised = "none"
    /\ result.answer \in Answers
    /\ Len(mem_at_call) >= 4
    /\ messages = mem_at_call

\* C2: a query in which retrieval or the Generation Provider raised handles
\* the exception itself and returns the apology with empty sources and
\* empty source_documents.
C2_FailureReturnsApology ==
    /\ raised # "none" => chat_pc \in {"except", "restore", "chat_return"}
    /\ (raised # "none" /\ chat_pc \in {"restore", "chat_return"}) =>
          /\ result.answer = APOLOGY
          /\ result.answer # ""
          /\ result.sources = <<>>
          /\ result.source_documents = <<>>

C2_Witness ==
    /\ chat_pc = "chat_return"
    /\ raised = "generation"
    /\ all_docs # <<>>
    /\ result.answer = APOLOGY
    /\ result.sources = <<>>

C4_AnsweredQueryAppendsOneTurn ==
    /\ (use_memory /\ chat_pc \in {"search", "generate", "save", "except"}) =>
          messages = mem_at_call
    /\ (use_memory /\ chat_pc = "query_return") =>
          /\ messages = mem_at_call \o Turn(question, answer)
          /\ result = NoResult
    /\ (use_memory /\ chat_pc = "chat_return" /\ raised = "none") =>
          messages = mem_at_call \o Turn(question, result.answer)

C4_Witness ==
    /\ use_memory
    /\ chat_pc = "chat_return"
    /\ raised = "none"
    /\ Len(mem_at_call) >= 2
    /\ mem_at_call[1].content # question
    /\ Len(messages) = Len(mem_at_call) + 2

C6_FailedRebuildKeepsCollection ==
    setup_pc = "raise" => collection = coll_before

\* C7: a search that runs during a rebuild returns the complete collection
\* of before the rebuild or the complete collection of after it.
C7_SearchSeesOldOrNew ==
    (chat_pc = "generate" /\ rebuild_seen # <<>>) =>
        \/ Range(all_docs) = DocsIn(rebuild_seen[1].before)
        \/ Range(all_docs) = DocsIn(rebuild_seen[1].after)

\* C8: when a rebuild has succeeded the collection holds exactly one
\* document per record of the source, under the id txn_<id>, whatever it
\* held before.
C8_RebuildYieldsOneDocumentPerRecord ==
    setup_pc = "return" =>
        /\ Count(collection) = Cardinality(DOMAIN records)
        /\ collection = ExpectedCollection(records)

C8_Witness ==
    /\ setup_pc = "return"
    /\ \E k \in DOMAIN coll_before : k \notin DOMAIN collection
    /\ collection = ExpectedCollection(records)

\* C9: setup_vector_store(force_recreate=False) ingests exactly when the
\* collection was empty at the call; otherwise it returns with the collection
\* as it was at the call.
C9_EnsureLoadedIngestsIffEmpty ==
    /\ setup_pc = "skipped" =>
          /\ ~force_recreate
          /\ Count(coll_at_call) > 0
          /\ collection = coll_at_call
    /\ (~force_recreate /\ setup_pc \in {"ingest", "delete", "add", "persist",
                                          "return", "raise"}) =>
          Count(coll_at_call) = 0

C9_Witness ==
    /\ setup_pc = "skipped"
    /\ ~force_recreate
    /\ Count(collection) > 0
    /\ collection = coll_at_call

\* C10: when the chatbot has been constructed over the present record source
\* and is constructed over it again, the second construction leaves the
\* collection with the same documents, under the same ids, as the first.
C10_InitialisationIdempotent ==
    (setup_pc = "return" /\ setup_caller = "chatbot" /\ inits >= 1) =>
        collection = first_collection

C10_Witness ==
    /\ setup_pc = "return"
    /\ setup_caller = "chatbot"
    /\ inits >= 1
    /\ Count(first_collection) > 0
    /\ collection = first_collection

C11_EmptyStoreSearched ==
    /\ chat_pc = "generate"
    /\ coll_at_search = <<EmptyCollection>>
    /\ all_docs = <<>>

\* C12: when a query is answered, its sources are the metadata of the
\* retrieved documents, one entry per document and in the order of the
\* retrieval, and the context of the prompt handed to the LLM is the contents
\* of the same documents in the same order.
C12_SourcesAndContextFollowRetrieval ==
    (chat_pc \in {"restore", "chat_return"} /\ raised = "none") =>
        /\ result.source_documents = all_docs
        /\ Len(result.sources) = Len(all_docs)
        /\ \A i \in 1..Len(all_docs) :
              result.sources[i] = all_docs[i].metadata
        /\ Len(prompt.context) = Len(all_docs)
        /\ \A i \in 1..Len(all_docs) :
              prompt.context[i] = all_docs[i].page_content

C12_Witness ==
    /\ chat_pc = "chat_return"
    /\ raised = "none"
    /\ Len(all_docs) = 2
    /\ all_docs[1].metadata.id > all_docs[2].metadata.id
    /\ result.sources[1].id > result.sources[2].id

C14_MemoryMutationsSerialized ==
    /\ suspended = <<>>
    /\ (use_memory /\ chat_pc \in {"save", "query_return"}) =>
          Len(chat_history) = Min(2 * turns_stored, 2 * W)
              - (IF chat_pc = "query_return" THEN 2 ELSE 0)
    /\ chat_pc = "idle" => Len(messages) = 2 * turns_stored

\* a use_memory=True request waits while the handler of a use_memory=False
\* request runs with the memory emptied, and a turn is stored
C14_Witness ==
    /\ ~use_memory
    /\ chat_pc \in {"generate", "save"}
    /\ messages = <<>>
    /\ turns_stored >= 1
    /\ waiting # <<>>
    /\ waiting[1].use_memory

\* the waiting use_memory=True request is served after it and loads the turn
C14_ServedAfterWaiting ==
    /\ use_memory
    /\ chat_pc = "save"
    /\ calls = 3
    /\ Len(chat_history) = 2
    /\ turns_stored = 1

\* C15: a call of chat starts only while the chatbot instance is set, and the
\* instance becomes set only by the step that ends a successful
\* initialize_chatbot; a request handled while the instance is missing is
\* rejected with 503 and starts no chat, and no request is rejected while the
\* instance is set; the raise of a failed initialisation reaches the caller
\* and leaves the instance as it was, unset if it was never set.
C15_NoQueryBeforeInitialisation ==
    /\ [](chat_pc # "idle" => chatbot_instance)
    /\ [][(~chatbot_instance /\ chatbot_instance') =>
            (setup_caller = "chatbot" /\ setup_pc \in {"return", "skipped"})]_vars
    /\ [][(Len(waiting') < Len(waiting) /\ ~chatbot_instance) =>
            (http_error' = 503 /\ chat_pc' = chat_pc)]_vars
    /\ [][(http_error = 0 /\ http_error' # 0) => ~chatbot_instance]_vars
    /\ [][(setup_pc = "raise" /\ setup_pc' # "raise") =>
            (setup_pc' = "idle" /\ chatbot_instance' = chatbot_instance)]_vars

\* the first initialisation has failed and a request is rejected with 503
C15_Witness ==
    /\ http_error = 503
    /\ ~chatbot_instance
    /\ setups = 1
    /\ setup_pc = "idle"
    /\ Count(collection) = 0

\* C16: every query that waits for the store or for the LLM eventually
\* reaches a terminal state, answered or failed, with its result.
C16_QueryReachesTerminalState ==
    (chat_pc \in {"search", "generate"}) ~>
        (chat_pc \in {"restore", "chat_return"})

\* C17: within one query the store is searched at most once and the LLM is
\* invoked at most once; once either has raised, the query is in its except
\* branch or past it, and after a failed search the LLM is not invoked.
C17_NoAutomaticRetry ==
    /\ provider_calls.search <= 1
    /\ provider_calls.generate <= 1
    /\ raised # "none" => chat_pc \in {"except", "restore", "chat_return"}
    /\ raised = "retrieval" => provider_calls.generate = 0

C17_Witness ==
    /\ chat_pc = "chat_return"
    /\ raised = "generation"
    /\ result = FallbackResult
    /\ provider_calls = [search |-> 1, generate |-> 1]

\* C18: whatever turns the memory held when chat(question, use_memory=False)
\* was called, the history the query loads is empty and the history section
\* of the prompt it hands to the LLM is empty.
C18_NoMemoryQueryHasEmptyHistory ==
    (~use_memory /\ prompt # <<>>) =>
        /\ chat_history = <<>>
        /\ prompt.history = <<>>

C18_Witness ==
    /\ ~use_memory
    /\ chat_pc = "save"
    /\ Len(mem_at_call) >= 2 * W
    /\ prompt.history = <<>>
    /\ prompt.question = question

\* C19: for every TOP_K_RESULTS and every top_k argument, a query retrieves
\* no more documents than the top_k its chatbot is configured with.
C19_RetrievalWithinConfiguredTopK ==
    (coll_at_search # <<>> /\ chatbot_config # <<>>) =>
        Len(all_docs) <= chatbot_config[1].top_k

\* C20: for every configured top_k, the MMR retriever of the constructed
\* chatbot fetches at least as many candidates as it returns documents.
C20_FetchKAtLeastK ==
    chatbot_config # <<>> =>
        chatbot_config[1].retriever.fetch_k >= chatbot_config[1].retriever.k

\* C21 as claimed: the history in the prompt of a use_memory=True query is the
\* last min(stored turns, W) turns the memory held when the query was called,
\* oldest first, each turn a "User" line followed by its "Assistant" line;
\* with W stored turns or more the prompt carries the W most recent turns.
C21_PromptCarriesWindowOfTurns ==
    (use_memory /\ prompt # <<>>) =>
        LET n == Min(Len(mem_at_call) \div 2, W)
            first == Len(mem_at_call) - 2 * n
        IN /\ Len(prompt.history) = 2 * n
           /\ \A t \in 1..n :
                 /\ prompt.history[2 * t - 1] =
                       <<"User", mem_at_call[first + 2 * t - 1].content>>
                 /\ prompt.history[2 * t] =
                       <<"Assistant", mem_at_call[first + 2 * t].content>>

\* C21 as amended: the history in the prompt of a use_memory=True query is the
\* last min(stored turns, 3) turns the memory held when the query was called,
\* oldest first, each turn a "User" line followed by its "Assistant" line;
\* with three stored turns or more the prompt carries the three most recent.
C21_PromptCarriesLastThreeTurns ==
    (use_memory /\ prompt # <<>>) =>
        LET n == Min(Len(mem_at_call) \div 2, 3)
            first == Len(mem_at_call) - 2 * n
        IN /\ Len(prompt.history) = 2 * n
           /\ \A t \in 1..n :
                 /\ prompt.history[2 * t - 1] =
                       <<"User", mem_at_call[first + 2 * t - 1].content>>
                 /\ prompt.history[2 * t] =
                       <<"Assistant", mem_at_call[first + 2 * t].content>>

C21_Witness ==
    /\ use_memory
    /\ chat_pc = "save"
    /\ Len(mem_at_call) >= 2 * W
    /\ Len(prompt.history) = 6
    /\ mem_at_call[1].content # mem_at_call[Len(mem_at_call) - 5].content
    /\ prompt.history[1] = <<"User", mem_at_call[Len(mem_at_call) - 5].content>>
    /\ prompt.history[6] = <<"Assistant", mem_at_call[Len(mem_at_call)].content>>

\* C22: a query that failed leaves the memory as it was when it was called:
\* the try branch raises before save_context and the except branch appends
\* nothing, so no stored message is the apology, and between two chats the
\* memory holds, turn by turn, a question and an answer of the Generation
\* Provider, one turn for each answered use_memory=True query since the last
\* clear_memory.
C22_FailedQueryLeavesMemory ==
    /\ (raised # "none" /\ use_memory) => messages = mem_at_call
    /\ (raised # "none" /\ chat_pc = "chat_return") => messages = mem_at_call
    /\ \A i \in 1..Len(messages) : messages[i].content # APOLOGY
    /\ chat_pc = "idle" =>
          /\ Len(messages) = 2 * turns_stored
          /\ \A t \in 1..turns_stored :
                \E q \in Questions, a \in Answers :
                    SubSeq(messages, 2 * t - 1, 2 * t) = Turn(q, a)

C22_Witness ==
    /\ chat_pc = "chat_return"
    /\ use_memory
    /\ raised = "generation"
    /\ result.answer = APOLOGY
    /\ Len(mem_at_call) >= 2
    /\ mem_at_call[Len(mem_at_call) - 1].content # question
    /\ messages = mem_at_call

\* C23: in every state between two calls the message list of the memory has
\* even length and alternates a human message and an ai message, starting
\* with a human one, and a call of get_last_question returns the question of
\* the last stored turn, None when the memory is empty.
C23_MemoryAlternatesAndLastQuestion ==
    chat_pc = "idle" =>
        /\ Len(messages) % 2 = 0
        /\ \A i \in 1..Len(messages) :
              messages[i].type = IF i % 2 = 1 THEN "human" ELSE "ai"
        /\ last_question # <<>> =>
              last_question[1] = IF messages = <<>> THEN None
                                 ELSE messages[Len(messages) - 1].content

C23_Witness ==
    /\ chat_pc = "idle"
    /\ Len(messages) >= 4
    /\ messages[1].content # messages[Len(messages) - 1].content
    /\ last_question = <<messages[Len(messages) - 1].content>>
    /\ calls >= 4

====
